---- MODULE Spec2Model ----
(***************************************************************************)
(* A state-machine model of js/main.js of the Segeljungs landing page.     *)
(*                                                                         *)
(* main.js holds two self-contained scripts, each an immediately invoked   *)
(* function:                                                               *)
(*   "simple"    (lines 7-117):   mobile menu with aria attributes, sticky *)
(*                                header (threshold 100), anchor scrolling *)
(*   "cinematic" (lines 132-553): scroll reveal, hero parallax, header    *)
(*                                (threshold 50, coalesced per animation   *)
(*                                frame), mobile menu with scroll lock,    *)
(*                                lightbox, filmstrip navigation, anchor   *)
(*                                scrolling                                *)
(* The variable scripts records which of them run on the page, so that a   *)
(* property of one variant "on its own" and a property of the page that    *)
(* runs both are both expressible.  An action is one browser event: every  *)
(* listener the scripts registered for it runs inside the action, in       *)
(* registration order.                                                     *)
(*                                                                         *)
(* init of the cinematic script (line 145) calls initFilmstripLightbox,    *)
(* which main.js does not define: the call throws, and the three           *)
(* controllers behind it (lightbox, filmstrip navigation, anchor           *)
(* scrolling) are never initialized.  The action Load is that page load,   *)
(* from a document in which some of the expected elements may be absent.   *)
(* The behaviour of the controllers themselves is studied from the page    *)
(* the file is written for: every element present and every controller     *)
(* initialized, the call of line 145 reaching initLightbox (lines 307-431),*)
(* the only lightbox of the file.                                          *)
(***************************************************************************)
EXTENDS Integers, Sequences, FiniteSets, TLC

(***************************************************************************)
(* Bounds of the model.                                                    *)
(***************************************************************************)
\* The largest gallery (number of .gallery__item elements) considered.
MaxImages == 5
\* The number of .reveal elements observed.
NumReveal == 2
\* The largest number of expected elements absent from a loaded document.
MaxMissing == 2
\* The largest scrollable extent of the filmstrip
\* (scrollWidth - clientWidth), in pixels.
MaxStrip == 5

(***************************************************************************)
(* Constants of the program.                                               *)
(***************************************************************************)
swipeThreshold == 50
SimpleThreshold == 100
CinematicThreshold == 50
Breakpoint == 768
\* The gap scrollGallery assumes when the computed style gives none.
DefaultGap == 32
\* The tolerance of updateButtons, in pixels.
Tolerance == 1
\* The parallax factors of updateParallax, in tenths (0.3 and 0.1).
ImageFactor == 3
CharactersFactor == 1

ScriptSets == {{"simple"}, {"cinematic"}, {"simple", "cinematic"}}

\* The aria-label values toggleMobileMenu writes ("Menü öffnen" and
\* "Menü schließen" in the source, transliterated to ASCII).
LabelOpen == "Menue oeffnen"
LabelClose == "Menue schliessen"

(***************************************************************************)
(* Inputs: the values the browser hands to the handlers.                   *)
(***************************************************************************)
\* window.scrollY around both header thresholds.
ScrollYs == {0, CinematicThreshold, CinematicThreshold + 1,
             SimpleThreshold, SimpleThreshold + 1}
\* window.innerWidth around the breakpoint.
InnerWidths == {Breakpoint, Breakpoint + 1}
\* screenX of a touch point: differences cover 0, +-1, +-49, +-50, +-51.
ScreenXs == {0, swipeThreshold - 1, swipeThreshold, swipeThreshold + 1}
\* e.key of a keydown event.
Keys == {"Escape", "ArrowLeft", "ArrowRight", "Enter", " ", "Tab"}
\* entry.boundingClientRect.top of an intersection entry.
RectTops == {-1, 0, 1}
\* header.offsetHeight.
HeaderHeights == {60, 80}
\* Document-absolute top edge of the element "#section".
SectionTops == {40, 600}
\* hero.offsetHeight.
HeroHeights == {SimpleThreshold}
\* filmstrip.scrollWidth - filmstrip.clientWidth, as the layout gives it.
MaxScrolls == 0..MaxStrip
\* offsetWidth of the first .gallery__frame.
ItemWidths == {200, 300}
\* parseFloat(style.gap): a length in pixels, or NaN (for "normal").
NaN == -1
Gaps == {NaN, 0, 16}
\* The two navigation buttons and the direction each scrolls in.
NavButtons == {[el |-> "prevBtn", direction |-> -1],
               [el |-> "nextBtn", direction |-> 1]}
\* href attributes of the links on the page: bare "#", an in-page anchor
\* whose target exists, one whose target does not, a link to another page.
Hrefs == {"#", "#section", "#missing", "page.html"}
\* Links: where the link sits and what it points to.
\*   inNav    - inside #mainNav (the simple script's menu)
\*   menuLink - carries class mobile-menu__link (the cinematic script's menu)
Links == [href : Hrefs, inNav : BOOLEAN, menuLink : BOOLEAN]

\* The elements the two scripts look up in the document.
Elements == {"header", "menuToggle", "mainNav", "mobileMenu", "reveal",
             "hero", "heroImage", "heroCharacters", "lightbox",
             "galleryItem", "filmstrip", "prevBtn", "nextBtn"}

\* The listeners init of the simple script installs.
SimpleListeners == {"toggleMobileMenu", "handleOutsideClick", "handleScroll",
                    "handleAnchorClick", "resize"}

\* The controllers of the cinematic script, in the order init calls them.
Controllers == {"initScrollReveal", "initParallax", "initHeader",
                "initMobileMenu", "initLightbox", "initGalleryNav",
                "initSmoothScroll"}

\* The elements a controller returns without ("if (!x) return").
Required(c) ==
    CASE c = "initScrollReveal" -> {"reveal"}
      [] c = "initParallax" -> {"hero", "heroImage"}
      [] c = "initHeader" -> {"header"}
      [] c = "initMobileMenu" -> {"menuToggle", "mobileMenu"}
      [] c = "initLightbox" -> {"lightbox", "galleryItem"}
      [] c = "initGalleryNav" -> {"filmstrip", "prevBtn", "nextBtn"}
      [] c = "initSmoothScroll" -> {}

\* The error the call of line 145 throws.
ReferenceError == [name |-> "ReferenceError", in |-> "init"]
\* The error of a property access on null, thrown in function fn.
TypeError(fn) == [name |-> "TypeError", in |-> fn]

VARIABLES
    scripts,
    present,          \* the expected elements the document holds
    loaded,           \* DOMContentLoaded was dispatched
    installed,        \* installed[c]: how often c installed its listeners          \* which of the two scripts run on the page
    \* ---- the window / document
    scrollY,          \* window.scrollY
    innerWidth,       \* window.innerWidth
    headerHeight,     \* #header offsetHeight
    sectionTop,       \* document-absolute top of "#section"
    bodyOverflow,     \* document.body.style.overflow: "" or "hidden"
    headerScrolled,   \* #header has class header--scrolled
    event,            \* the event dispatched last, with what its listeners
                      \* did to it (preventDefault, window.scrollTo calls)
    \* ---- simple script: mobile menu
    navOpen,          \* #mainNav has class header__nav--open
    ariaLabel,        \* #menuToggle aria-label
    ariaExpanded,     \* #menuToggle aria-expanded
    \* ---- cinematic script: reveal
    visible,          \* visible[el]: el has class visible
    \* ---- cinematic script: header
    ticking,          \* initHeader's ticking flag
    lastScrollY,      \* initHeader's lastScrollY
    rafQueue,         \* callbacks handed to requestAnimationFrame, not yet run
    \* ---- cinematic script: parallax
    heroHeight,       \* .hero offsetHeight
    parallaxTicking,  \* initParallax's ticking flag
    heroTranslate,    \* translateY of .hero__bg-image, in tenths of a pixel
                      \* (-1: no transform set)
    charactersTranslate, \* translateY of .hero__characters, likewise
    \* ---- cinematic script: filmstrip navigation
    stripScrollLeft,  \* #filmstrip scrollLeft
    stripMaxScroll,   \* #filmstrip scrollWidth - clientWidth
    prevDisabled,     \* .gallery__nav-btn--prev disabled
    nextDisabled,     \* .gallery__nav-btn--next disabled
    timerPending,     \* setTimeout(updateButtons, 100) has not fired yet
    \* ---- cinematic script: mobile menu
    menuToggleActive, \* #menuToggle has class active
    mobileMenuActive, \* #mobileMenu has class active
    \* ---- cinematic script: lightbox
    images,           \* the descriptors built at initialization (0-based)
    currentIndex,
    lightboxActive,   \* #lightbox has class active
    lightboxImg,      \* src and alt of .lightbox__img
    touchStartX,
    touchEndX,
    \* ---- the browser
    observerSupported \* 'IntersectionObserver' in window

envVars == <<scripts, scrollY, innerWidth, headerHeight, sectionTop,
             observerSupported>>
navVars == <<navOpen, ariaLabel, ariaExpanded>>
revealVars == <<visible>>
headerVars == <<ticking, lastScrollY, rafQueue>>
menuVars == <<menuToggleActive, mobileMenuActive>>
lightboxVars == <<images, currentIndex, lightboxActive, lightboxImg,
                  touchStartX, touchEndX>>
\* What no event changes: the scripts loaded, the layout, the gallery built
\* at initialization, the browser's capabilities.
parallaxVars == <<parallaxTicking, heroTranslate, charactersTranslate>>
stripVars == <<stripScrollLeft, stripMaxScroll, prevDisabled, nextDisabled,
               timerPending>>
pageVars == <<scripts, present, headerHeight, heroHeight, sectionTop, images,
              observerSupported>>
loadVars == <<loaded, installed>>

vars == <<envVars, present, loadVars, bodyOverflow, headerScrolled, event, navVars, revealVars,
          headerVars, menuVars, lightboxVars, heroHeight, parallaxVars,
          stripVars>>

Simple == "simple" \in scripts
Cinematic == "cinematic" \in scripts

RevealEls == 1..NumReveal

(***************************************************************************)
(* JavaScript arithmetic.                                                  *)
(***************************************************************************)
\* a % b of JavaScript: the result takes the sign of the dividend.
JsMod(a, b) == IF a >= 0 THEN a % b ELSE -((-a) % b)

Abs(x) == IF x < 0 THEN -x ELSE x

Min(a, b) == IF a < b THEN a ELSE b

\* String(b), as setAttribute stores a boolean.
BoolString(b) == IF b THEN "true" ELSE "false"

(***************************************************************************)
(* The page as the handlers see it: one record holding everything a        *)
(* handler may read or write.  A handler is an operator from such a record *)
(* to the record after it ran, so that the listeners of one event compose  *)
(* in the order the browser calls them.                                    *)
(***************************************************************************)
Dom ==
    [scrollY          |-> scrollY,
     innerWidth       |-> innerWidth,
     bodyOverflow     |-> bodyOverflow,
     headerScrolled   |-> headerScrolled,
     defaultPrevented |-> FALSE,
     scrollTo         |-> <<>>,
     scrollBy         |-> <<>>,
     faults           |-> <<>>,
     loaded           |-> loaded,
     installed        |-> installed,
     navOpen          |-> navOpen,
     ariaLabel        |-> ariaLabel,
     ariaExpanded     |-> ariaExpanded,
     visible          |-> visible,
     ticking          |-> ticking,
     lastScrollY      |-> lastScrollY,
     rafQueue         |-> rafQueue,
     menuToggleActive |-> menuToggleActive,
     mobileMenuActive |-> mobileMenuActive,
     currentIndex     |-> currentIndex,
     lightboxActive   |-> lightboxActive,
     lightboxImg      |-> lightboxImg,
     touchStartX      |-> touchStartX,
     touchEndX        |-> touchEndX,
     parallaxTicking  |-> parallaxTicking,
     heroTranslate    |-> heroTranslate,
     charactersTranslate |-> charactersTranslate,
     stripScrollLeft  |-> stripScrollLeft,
     stripMaxScroll   |-> stripMaxScroll,
     prevDisabled     |-> prevDisabled,
     nextDisabled     |-> nextDisabled,
     timerPending     |-> timerPending]

\* The variables after an event whose listeners left the page as d.
Commit(d, type, target, key, num) ==
    /\ scrollY' = d.scrollY
    /\ loaded' = d.loaded
    /\ installed' = d.installed
    /\ innerWidth' = d.innerWidth
    /\ bodyOverflow' = d.bodyOverflow
    /\ headerScrolled' = d.headerScrolled
    /\ navOpen' = d.navOpen
    /\ ariaLabel' = d.ariaLabel
    /\ ariaExpanded' = d.ariaExpanded
    /\ visible' = d.visible
    /\ ticking' = d.ticking
    /\ lastScrollY' = d.lastScrollY
    /\ rafQueue' = d.rafQueue
    /\ menuToggleActive' = d.menuToggleActive
    /\ mobileMenuActive' = d.mobileMenuActive
    /\ currentIndex' = d.currentIndex
    /\ lightboxActive' = d.lightboxActive
    /\ lightboxImg' = d.lightboxImg
    /\ touchStartX' = d.touchStartX
    /\ touchEndX' = d.touchEndX
    /\ parallaxTicking' = d.parallaxTicking
    /\ heroTranslate' = d.heroTranslate
    /\ charactersTranslate' = d.charactersTranslate
    /\ stripScrollLeft' = d.stripScrollLeft
    /\ stripMaxScroll' = d.stripMaxScroll
    /\ prevDisabled' = d.prevDisabled
    /\ nextDisabled' = d.nextDisabled
    /\ timerPending' = d.timerPending
    /\ event' = [type |-> type, target |-> target, key |-> key, num |-> num,
                 defaultPrevented |-> d.defaultPrevented,
                 scrollTo |-> d.scrollTo, scrollBy |-> d.scrollBy,
                 faults |-> d.faults]

\* An uncaught error: the listener (or init) that threw is abandoned where
\* it stands, the browser reports the error and goes on.
Throw(d, error) == [d EXCEPT !.faults = Append(@, error)]

\* addEventListener and the like: controller c has its listeners in place.
Install(d, c) == [d EXCEPT !.installed[c] = @ + 1]

Installed(d, c) == d.installed[c] > 0

(***************************************************************************)
(* Click targets.                                                          *)
(*   el       - the element clicked                                        *)
(*   href     - the href of the link clicked ("" when el is no link)       *)
(*   inNav    - #mainNav contains the element                              *)
(*   inToggle - #menuToggle contains the element                          *)
(*   menuLink - the element carries class mobile-menu__link                *)
(*   index    - the index of the gallery item clicked (-1 otherwise)       *)
(***************************************************************************)
Target(el, href, inNav, inToggle, menuLink, index) ==
    [el |-> el, href |-> href, inNav |-> inNav, inToggle |-> inToggle,
     menuLink |-> menuLink, index |-> index]

NoTarget == Target("", "", FALSE, FALSE, FALSE, -1)
ToggleTarget == Target("menuToggle", "", FALSE, TRUE, FALSE, -1)
LinkTarget(l) == Target("link", l.href, l.inNav, FALSE, l.menuLink, -1)
PageTarget(inNav) == Target("page", "", inNav, FALSE, FALSE, -1)
GalleryTarget(i) == Target("galleryItem", "", FALSE, FALSE, FALSE, i)
LightboxTarget(el) == Target(el, "", FALSE, FALSE, FALSE, -1)

LightboxEls == {"lightbox", "lightboxContent", "lightboxImg",
                "lightboxClose", "lightboxPrev", "lightboxNext"}

\* href^="#"
IsHashHref(href) == href \in {"#", "#section", "#missing"}
\* document.querySelector(href) finds an element.
TargetExists(href) == href = "#section"
\* targetElement.getBoundingClientRect().top: relative to the viewport.
RectTopOf(d) == sectionTop - d.scrollY

(***************************************************************************)
(* Simple script (lines 7-117).                                            *)
(***************************************************************************)
toggleMobileMenu(d) ==
    IF "mainNav" \notin present
    THEN Throw(d, TypeError("toggleMobileMenu"))
    ELSE LET isOpen == ~d.navOpen
         IN  [d EXCEPT !.navOpen = isOpen,
                       !.ariaLabel = IF isOpen THEN LabelClose ELSE LabelOpen,
                       !.ariaExpanded = BoolString(isOpen)]

handleOutsideClick(d, t) ==
    IF "mainNav" \notin present
    THEN Throw(d, TypeError("handleOutsideClick"))
    ELSE IF d.navOpen
         THEN IF ~t.inNav
              THEN IF "menuToggle" \notin present
                   THEN Throw(d, TypeError("handleOutsideClick"))
                   ELSE IF ~t.inToggle
                        THEN [d EXCEPT !.navOpen = FALSE,
                                       !.ariaExpanded = "false"]
                        ELSE d
              ELSE d
         ELSE d

handleScroll(d) ==
    IF "header" \notin present
    THEN Throw(d, TypeError("handleScroll"))
    ELSE IF d.scrollY > SimpleThreshold
         THEN [d EXCEPT !.headerScrolled = TRUE]
         ELSE [d EXCEPT !.headerScrolled = FALSE]

\* Mutant: the default navigation is suppressed before the target is
\* looked up.
handleAnchorClick_PreventFirst(d, t) ==
    IF IsHashHref(t.href)
    THEN IF t.href # "" /\ t.href # "#"
         THEN IF TargetExists(t.href)
              THEN LET d1 == [d EXCEPT !.defaultPrevented = TRUE]
                       d2 == [d1 EXCEPT !.navOpen = FALSE]
                       targetPosition ==
                           RectTopOf(d) + d.scrollY - headerHeight
                   IN  IF "mainNav" \notin present
                       THEN Throw(d1, TypeError("handleAnchorClick"))
                       ELSE IF "header" \notin present
                       THEN Throw(d2, TypeError("handleAnchorClick"))
                       ELSE [d2 EXCEPT !.scrollTo = Append(@, targetPosition)]
              ELSE [d EXCEPT !.defaultPrevented = TRUE]
         ELSE d
    ELSE d

handleAnchorClick(d, t) ==
    IF IsHashHref(t.href)
    THEN IF t.href # "" /\ t.href # "#"
         THEN IF TargetExists(t.href)
              THEN LET d1 == [d EXCEPT !.defaultPrevented = TRUE]
                       d2 == [d1 EXCEPT !.navOpen = FALSE]
                       targetPosition ==
                           RectTopOf(d) + d.scrollY - headerHeight
                   IN  IF "mainNav" \notin present
                       THEN Throw(d1, TypeError("handleAnchorClick"))
                       ELSE IF "header" \notin present
                       THEN Throw(d2, TypeError("handleAnchorClick"))
                       ELSE [d2 EXCEPT !.scrollTo = Append(@, targetPosition)]
              ELSE d
         ELSE d
    ELSE d

handleResize(d) ==
    IF d.innerWidth > Breakpoint
    THEN IF "mainNav" \notin present
         THEN Throw(d, TypeError("resize"))
         ELSE IF d.navOpen
              THEN [d EXCEPT !.navOpen = FALSE]
              ELSE d
    ELSE d

(***************************************************************************)
(* Cinematic script (lines 132-553).                                       *)
(***************************************************************************)
\* Mutant: the flag is removed when the top edge is above the viewport top.
revealEntry_RemoveAbove(d, el, isIntersecting, top) ==
    IF isIntersecting
    THEN [d EXCEPT !.visible[el] = TRUE]
    ELSE IF top < 0
         THEN [d EXCEPT !.visible[el] = FALSE]
         ELSE d

\* The IntersectionObserver callback of initScrollReveal, for one entry.
revealEntry(d, el, isIntersecting, top) ==
    IF isIntersecting
    THEN [d EXCEPT !.visible[el] = TRUE]
    ELSE IF top > 0
         THEN [d EXCEPT !.visible[el] = FALSE]
         ELSE d

\* Mutant: the callback leaves the guard flag set.
updateHeader_KeepTicking(d) ==
    LET y == d.scrollY
        d1 == IF y > CinematicThreshold
              THEN [d EXCEPT !.headerScrolled = TRUE]
              ELSE [d EXCEPT !.headerScrolled = FALSE]
    IN  [d1 EXCEPT !.lastScrollY = y]

\* Mutant: the threshold itself counts as scrolled.
updateHeader_Inclusive(d) ==
    LET y == d.scrollY
        d1 == IF y >= CinematicThreshold
              THEN [d EXCEPT !.headerScrolled = TRUE]
              ELSE [d EXCEPT !.headerScrolled = FALSE]
    IN  [d1 EXCEPT !.lastScrollY = y, !.ticking = FALSE]

updateHeader(d) ==
    LET y == d.scrollY
        d1 == IF y > CinematicThreshold
              THEN [d EXCEPT !.headerScrolled = TRUE]
              ELSE [d EXCEPT !.headerScrolled = FALSE]
    IN  [d1 EXCEPT !.lastScrollY = y, !.ticking = FALSE]

\* updateParallax of the initParallax that is in force (line 466).
updateParallax(d) ==
    LET y == d.scrollY
        d1 == IF y < heroHeight
              THEN [d EXCEPT !.heroTranslate = y * ImageFactor,
                             !.charactersTranslate =
                                 IF "heroCharacters" \in present
                                 THEN y * CharactersFactor ELSE @]
              ELSE d
    IN  [d1 EXCEPT !.parallaxTicking = FALSE]

\* Mutant: every scroll event requests a frame, guard or not.
parallaxScrollListener_Unguarded(d) ==
    [d EXCEPT !.rafQueue = Append(@, "updateParallax"),
              !.parallaxTicking = TRUE]

\* The scroll listener of initParallax.
parallaxScrollListener(d) ==
    IF ~d.parallaxTicking
    THEN [d EXCEPT !.rafQueue = Append(@, "updateParallax"),
                   !.parallaxTicking = TRUE]
    ELSE d

\* The scroll listener of initHeader.
headerScrollListener(d) ==
    IF ~d.ticking
    THEN [d EXCEPT !.rafQueue = Append(@, "updateHeader"), !.ticking = TRUE]
    ELSE d

\* Mutant: toggling does not touch the scroll lock.
toggleMenu_NoLock(d) ==
    [d EXCEPT !.menuToggleActive = ~@,
              !.mobileMenuActive = ~@]

toggleMenu(d) ==
    LET isActive == d.mobileMenuActive
    IN  [d EXCEPT !.menuToggleActive = ~@,
                  !.mobileMenuActive = ~@,
                  !.bodyOverflow = IF isActive THEN "" ELSE "hidden"]

\* Mutant: only the toggle control is reset, the panel stays active.
closeMenu_ToggleOnly(d) ==
    [d EXCEPT !.menuToggleActive = FALSE,
              !.bodyOverflow = ""]

closeMenu(d) ==
    [d EXCEPT !.menuToggleActive = FALSE,
              !.mobileMenuActive = FALSE,
              !.bodyOverflow = ""]

\* The keydown listener of initMobileMenu.
menuKeydown(d, key) ==
    IF key = "Escape" /\ d.mobileMenuActive THEN closeMenu(d) ELSE d

updateLightboxImage(d) ==
    IF d.currentIndex \in DOMAIN images
    THEN [d EXCEPT !.lightboxImg = [src |-> images[d.currentIndex].src,
                                    alt |-> images[d.currentIndex].alt]]
    ELSE d

\* Mutant: the overlay opens on the index without loading its image.
openLightbox_NoImage(d, index) ==
    [d EXCEPT !.currentIndex = index,
              !.lightboxActive = TRUE,
              !.bodyOverflow = "hidden"]

openLightbox(d, index) ==
    LET d1 == updateLightboxImage([d EXCEPT !.currentIndex = index])
    IN  [d1 EXCEPT !.lightboxActive = TRUE, !.bodyOverflow = "hidden"]

\* Mutant: closing keeps the lock while the mobile menu is open.
closeLightbox_Counted(d) ==
    [d EXCEPT !.lightboxActive = FALSE,
              !.bodyOverflow = IF d.mobileMenuActive THEN "hidden" ELSE ""]

\* Mutant: closing leaves the page scroll locked.
closeLightbox_KeepLock(d) ==
    [d EXCEPT !.lightboxActive = FALSE]

closeLightbox(d) ==
    [d EXCEPT !.lightboxActive = FALSE, !.bodyOverflow = ""]

\* images.length
ImagesLength == Cardinality(DOMAIN images)

\* Mutant: the decrement without the normalizing add of the length.
showPrevImage_NoNormalize(d) ==
    updateLightboxImage(
        [d EXCEPT !.currentIndex = JsMod(@ - 1, ImagesLength)])

showPrevImage(d) ==
    updateLightboxImage(
        [d EXCEPT !.currentIndex = JsMod(@ - 1 + ImagesLength, ImagesLength)])

\* Mutant: "next" stops at the last image.
showNextImage_Saturate(d) ==
    updateLightboxImage(
        [d EXCEPT !.currentIndex = Min(@ + 1, ImagesLength - 1)])

\* Mutant: the increment without the wrap.
showNextImage_NoWrap(d) ==
    updateLightboxImage([d EXCEPT !.currentIndex = @ + 1])

showNextImage(d) ==
    updateLightboxImage(
        [d EXCEPT !.currentIndex = JsMod(@ + 1, ImagesLength)])

\* The keydown listener of a gallery item.
galleryItemKeydown(d, index, key) ==
    IF key = "Enter" \/ key = " "
    THEN [openLightbox(d, index) EXCEPT !.defaultPrevented = TRUE]
    ELSE d

\* The click listener of #lightbox ("click outside to close").
lightboxClick(d, t) ==
    IF t.el = "lightbox" \/ t.el = "lightboxContent"
    THEN closeLightbox(d)
    ELSE d

\* Mutant: the listener does not look at the overlay's state.
lightboxKeydown_Unguarded(d, key) ==
    CASE key = "Escape" -> closeLightbox(d)
      [] key = "ArrowLeft" -> showPrevImage(d)
      [] key = "ArrowRight" -> showNextImage(d)
      [] OTHER -> d

\* The document keydown listener of initLightbox.
lightboxKeydown(d, key) ==
    IF ~d.lightboxActive
    THEN d
    ELSE CASE key = "Escape" -> closeLightbox(d)
           [] key = "ArrowLeft" -> showPrevImage(d)
           [] key = "ArrowRight" -> showNextImage(d)
           [] OTHER -> d

\* Mutant: a swipe of exactly the threshold counts.
handleSwipe_Inclusive(d) ==
    LET diff == d.touchEndX - d.touchStartX
    IN  IF Abs(diff) >= swipeThreshold
        THEN IF diff > 0 THEN showPrevImage(d) ELSE showNextImage(d)
        ELSE d

handleSwipe(d) ==
    LET diff == d.touchEndX - d.touchStartX
    IN  IF Abs(diff) > swipeThreshold
        THEN IF diff > 0 THEN showPrevImage(d) ELSE showNextImage(d)
        ELSE d

touchstart(d, x) == [d EXCEPT !.touchStartX = x]

touchend(d, x) == handleSwipe([d EXCEPT !.touchEndX = x])

\* Mutant: the scroll target is not offset by the header height.
smoothScrollClick_NoOffset(d, t) ==
    IF t.href = "" \/ t.href = "#"
    THEN d
    ELSE IF TargetExists(t.href)
         THEN LET targetPosition == RectTopOf(d) + d.scrollY
              IN  [d EXCEPT !.defaultPrevented = TRUE,
                            !.scrollTo = Append(@, targetPosition)]
         ELSE d

\* The click listener initSmoothScroll puts on every a[href^="#"].
smoothScrollClick(d, t) ==
    IF t.href = "" \/ t.href = "#"
    THEN d
    ELSE IF TargetExists(t.href)
         THEN LET hh == IF "header" \in present /\ headerHeight # 0
                        THEN headerHeight ELSE 0
                  targetPosition == RectTopOf(d) + d.scrollY - hh
              IN  [d EXCEPT !.defaultPrevented = TRUE,
                            !.scrollTo = Append(@, targetPosition)]
         ELSE d

\* Mutant: the buttons are disabled at the extremes only, without tolerance.
updateButtons_Exact(d) ==
    LET scrollLeft == d.stripScrollLeft
        maxScroll == d.stripMaxScroll
    IN  [d EXCEPT !.prevDisabled = (scrollLeft <= 0),
                  !.nextDisabled = (scrollLeft >= maxScroll)]

\* updateButtons of initGalleryNav.
updateButtons(d) ==
    LET scrollLeft == d.stripScrollLeft
        maxScroll == d.stripMaxScroll
    IN  [d EXCEPT !.prevDisabled = (scrollLeft <= Tolerance),
                  !.nextDisabled = (scrollLeft >= maxScroll - Tolerance)]

\* scrollGallery of initGalleryNav.  hasFrame: the strip holds a
\* .gallery__frame; itemWidth, parsedGap: its offsetWidth and the parsed gap.
scrollGallery(d, direction, hasFrame, itemWidth, parsedGap) ==
    IF ~hasFrame
    THEN d
    ELSE LET gap == IF parsedGap = NaN \/ parsedGap = 0
                    THEN DefaultGap ELSE parsedGap
             scrollAmount == itemWidth + gap
         IN  [d EXCEPT !.scrollBy = Append(@, direction * scrollAmount)]

(***************************************************************************)
(* Event dispatch: the listeners of one event, in the order the browser    *)
(* calls them (target first, then the ancestors up to document; on one     *)
(* element in registration order, the simple script's init running first). *)
(***************************************************************************)
clickListeners(d, t) ==
    LET menu == Installed(d, "initMobileMenu")
        box == Installed(d, "initLightbox")
        l1 == IF Installed(d, "toggleMobileMenu") /\ t.el = "menuToggle"
              THEN toggleMobileMenu(d) ELSE d
        l2 == IF menu /\ t.el = "menuToggle" THEN toggleMenu(l1) ELSE l1
        l3 == IF menu /\ t.menuLink THEN closeMenu(l2) ELSE l2
        l4 == IF Installed(d, "initSmoothScroll") /\ IsHashHref(t.href)
              THEN smoothScrollClick(l3, t) ELSE l3
        l5 == IF box /\ t.el = "galleryItem"
              THEN openLightbox(l4, t.index) ELSE l4
        l6 == IF box /\ t.el = "lightboxClose" THEN closeLightbox(l5)
              ELSE IF box /\ t.el = "lightboxPrev" THEN showPrevImage(l5)
              ELSE IF box /\ t.el = "lightboxNext" THEN showNextImage(l5)
              ELSE l5
        l7 == IF box /\ t.el \in LightboxEls
              THEN lightboxClick(l6, t) ELSE l6
        l8 == IF Installed(d, "handleOutsideClick")
              THEN handleOutsideClick(l7, t) ELSE l7
        l9 == IF Installed(d, "handleAnchorClick")
              THEN handleAnchorClick(l8, t) ELSE l8
    IN  l9

\* focus: the index of the gallery item that has the focus, or -1.
keydownListeners(d, key, focus) ==
    LET l1 == IF Installed(d, "initLightbox") /\ focus # -1
              THEN galleryItemKeydown(d, focus, key) ELSE d
        l2 == IF Installed(d, "initMobileMenu")
              THEN menuKeydown(l1, key) ELSE l1
        l3 == IF Installed(d, "initLightbox")
              THEN lightboxKeydown(l2, key) ELSE l2
    IN  l3

scrollListeners(d) ==
    LET l1 == IF Installed(d, "handleScroll") THEN handleScroll(d) ELSE d
        l2 == IF Installed(d, "initParallax")
              THEN parallaxScrollListener(l1) ELSE l1
        l3 == IF Installed(d, "initHeader")
              THEN headerScrollListener(l2) ELSE l2
    IN  l3

\* The scroll listener of #filmstrip.
stripScrollListeners(d) ==
    IF Installed(d, "initGalleryNav") THEN updateButtons(d) ELSE d

\* The timer initGalleryNav starts.
timeoutCallbacks(d) ==
    updateButtons([d EXCEPT !.timerPending = FALSE])

resizeListeners(d) ==
    LET l1 == IF Installed(d, "resize") THEN handleResize(d) ELSE d
        l2 == IF Installed(d, "initGalleryNav") THEN updateButtons(l1) ELSE l1
    IN  l2

runCallback(d, cb) ==
    CASE cb = "updateHeader" -> updateHeader(d)
      [] cb = "updateParallax" -> updateParallax(d)
      [] OTHER -> d

RECURSIVE runCallbacks(_, _)
runCallbacks(d, queue) ==
    IF queue = <<>> THEN d
    ELSE runCallbacks(runCallback(d, Head(queue)), Tail(queue))

(***************************************************************************)
(* Initialization.                                                         *)
(***************************************************************************)
\* The descriptor initLightbox builds for gallery item i.
ImageOf(i) == [src |-> <<"src", i>>, alt |-> <<"alt", i>>]

\* The overlay image before any image was loaded into it.
NoImage == [src |-> <<>>, alt |-> <<>>]

\* The page as the HTML document gives it, before a script ran.
Html(y, w, m) ==
    [scrollY          |-> y,
     innerWidth       |-> w,
     bodyOverflow     |-> "",
     headerScrolled   |-> FALSE,
     defaultPrevented |-> FALSE,
     scrollTo         |-> <<>>,
     scrollBy         |-> <<>>,
     faults           |-> <<>>,
     loaded           |-> FALSE,
     installed        |-> [c \in SimpleListeners \cup Controllers |-> 0],
     navOpen          |-> FALSE,
     ariaLabel        |-> LabelOpen,
     ariaExpanded     |-> "false",
     visible          |-> [el \in RevealEls |-> FALSE],
     ticking          |-> FALSE,
     lastScrollY      |-> 0,
     rafQueue         |-> <<>>,
     menuToggleActive |-> FALSE,
     mobileMenuActive |-> FALSE,
     currentIndex     |-> 0,
     lightboxActive   |-> FALSE,
     lightboxImg      |-> NoImage,
     touchStartX      |-> 0,
     touchEndX        |-> 0,
     parallaxTicking  |-> FALSE,
     heroTranslate    |-> -1,
     charactersTranslate |-> -1,
     stripScrollLeft  |-> 0,
     stripMaxScroll   |-> m,
     prevDisabled     |-> FALSE,
     nextDisabled     |-> FALSE,
     timerPending     |-> FALSE]

\* init of the simple script: the listeners, then the "initial scroll
\* position" check, then the resize listener.  An error thrown by the
\* check leaves init before the resize listener is installed.
initSimple(d) ==
    LET d1 == IF "menuToggle" \in present
              THEN Install(d, "toggleMobileMenu") ELSE d
        d2 == Install(d1, "handleOutsideClick")
        d3 == Install(d2, "handleScroll")
        d4 == Install(d3, "handleAnchorClick")
        d5 == handleScroll(d4)
    IN  IF d5.faults # d4.faults THEN d5 ELSE Install(d5, "resize")

\* initScrollReveal: without IntersectionObserver every element is shown.
initScrollReveal(d, supported) ==
    IF "reveal" \notin present THEN d
    ELSE IF supported THEN Install(d, "initScrollReveal")
    ELSE Install([d EXCEPT !.visible = [el \in RevealEls |-> TRUE]],
                 "initScrollReveal")

\* initParallax: the declaration of line 466 replaces that of line 192.
initParallax(d) ==
    IF "hero" \notin present \/ "heroImage" \notin present THEN d
    ELSE Install([d EXCEPT !.parallaxTicking = FALSE], "initParallax")

\* initHeader: lastScrollY, ticking, and the "initial check".
initHeader(d) ==
    IF "header" \notin present THEN d
    ELSE Install(updateHeader([d EXCEPT !.lastScrollY = d.scrollY,
                                        !.ticking = FALSE]),
                 "initHeader")

initMobileMenu(d) ==
    IF "menuToggle" \notin present \/ "mobileMenu" \notin present THEN d
    ELSE Install(d, "initMobileMenu")

initLightbox(d) ==
    IF "lightbox" \notin present \/ "galleryItem" \notin present THEN d
    ELSE Install([d EXCEPT !.currentIndex = 0], "initLightbox")

initGalleryNav(d) ==
    IF \/ "filmstrip" \notin present
       \/ "prevBtn" \notin present
       \/ "nextBtn" \notin present
    THEN d
    ELSE Install([d EXCEPT !.timerPending = TRUE], "initGalleryNav")

initSmoothScroll(d) == Install(d, "initSmoothScroll")

\* init of the cinematic script.  filmstripLightbox is what the name
\* initFilmstripLightbox of line 145 stands for: "" as main.js is (no such
\* function: the call throws and init ends there), "initLightbox" for the
\* page the file is written for.
initCinematic(d, supported, filmstripLightbox) ==
    LET d1 == initScrollReveal(d, supported)
        d2 == initParallax(d1)
        d3 == initHeader(d2)
        d4 == initMobileMenu(d3)
    IN  IF filmstripLightbox = "initLightbox"
        THEN initSmoothScroll(initGalleryNav(initLightbox(d4)))
        ELSE Throw(d4, ReferenceError)

\* DOMContentLoaded: init of each script on the page, the simple script's
\* first; an error in one listener does not keep the other from running.
domContentLoaded(d, filmstripLightbox) ==
    LET d0 == [d EXCEPT !.loaded = TRUE]
        d1 == IF "simple" \in scripts THEN initSimple(d0) ELSE d0
        d2 == IF "cinematic" \in scripts
              THEN initCinematic(d1, observerSupported, filmstripLightbox)
              ELSE d1
    IN  d2

\* The variables of the page are those of record d.
PageIs(d) ==
    /\ scrollY = d.scrollY
    /\ innerWidth = d.innerWidth
    /\ loaded = d.loaded
    /\ installed = d.installed
    /\ bodyOverflow = d.bodyOverflow
    /\ headerScrolled = d.headerScrolled
    /\ navOpen = d.navOpen
    /\ ariaLabel = d.ariaLabel
    /\ ariaExpanded = d.ariaExpanded
    /\ visible = d.visible
    /\ ticking = d.ticking
    /\ lastScrollY = d.lastScrollY
    /\ rafQueue = d.rafQueue
    /\ menuToggleActive = d.menuToggleActive
    /\ mobileMenuActive = d.mobileMenuActive
    /\ currentIndex = d.currentIndex
    /\ lightboxActive = d.lightboxActive
    /\ lightboxImg = d.lightboxImg
    /\ touchStartX = d.touchStartX
    /\ touchEndX = d.touchEndX
    /\ parallaxTicking = d.parallaxTicking
    /\ heroTranslate = d.heroTranslate
    /\ charactersTranslate = d.charactersTranslate
    /\ stripScrollLeft = d.stripScrollLeft
    /\ stripMaxScroll = d.stripMaxScroll
    /\ prevDisabled = d.prevDisabled
    /\ nextDisabled = d.nextDisabled
    /\ timerPending = d.timerPending

\* The page the file is written for, loaded: every expected element is
\* present and every controller initialized.
InitFrom(ss, ys, ws, hs, ts, ns, os) ==
    /\ scripts \in ss
    /\ present = Elements
    /\ headerHeight \in hs
    /\ heroHeight \in HeroHeights
    /\ sectionTop \in ts
    /\ observerSupported \in os
    /\ \E n \in ns : images = [i \in 0..(n - 1) |-> ImageOf(i)]
    /\ \E y \in ys, w \in ws :
         PageIs(domContentLoaded(Html(y, w, MaxStrip), "initLightbox"))
    /\ event = [type |-> "load", target |-> NoTarget, key |-> "", num |-> -1,
                defaultPrevented |-> FALSE, scrollTo |-> <<>>,
                scrollBy |-> <<>>,
                faults |-> <<>>]

\* The documents considered at page load: at most MaxMissing of the
\* expected elements are absent.
Documents == {Elements \ m : m \in {x \in SUBSET Elements :
                                        Cardinality(x) <= MaxMissing}}

\* A document before DOMContentLoaded: no listener installed yet.
InitDocument(ss, ps, ys, ws, hs, ts, ns, os) ==
    /\ scripts \in ss
    /\ present \in ps
    /\ headerHeight \in hs
    /\ heroHeight \in HeroHeights
    /\ sectionTop \in ts
    /\ observerSupported \in os
    /\ \E n \in ns : images = [i \in 0..(n - 1) |-> ImageOf(i)]
    /\ \E y \in ys, w \in ws : PageIs(Html(y, w, MaxStrip))
    /\ event = [type |-> "", target |-> NoTarget, key |-> "", num |-> -1,
                defaultPrevented |-> FALSE, scrollTo |-> <<>>,
                scrollBy |-> <<>>,
                faults |-> <<>>]

Init ==
    \/ InitFrom(ScriptSets, ScrollYs, InnerWidths, HeaderHeights, SectionTops,
                1..MaxImages, BOOLEAN)
    \/ InitDocument(ScriptSets, Documents, ScrollYs, InnerWidths,
                    HeaderHeights, SectionTops, 1..MaxImages, BOOLEAN)

(***************************************************************************)
(* Actions: one per browser event.                                         *)
(***************************************************************************)
\* The page load as main.js performs it.
Load ==
    /\ ~loaded
    /\ Commit(domContentLoaded(Dom, ""), "DOMContentLoaded", NoTarget, "", -1)
    /\ UNCHANGED pageVars

Click(t) == Commit(clickListeners(Dom, t), "click", t, "", -1)

ClickMenuToggle ==
    /\ "menuToggle" \in present
    /\ Click(ToggleTarget)
    /\ UNCHANGED pageVars

\* A link can be clicked where the element that holds it exists.
ClickLink ==
    /\ \E l \in Links :
         /\ l.inNav => "mainNav" \in present
         /\ l.menuLink => "mobileMenu" \in present
         /\ Click(LinkTarget(l))
    /\ UNCHANGED pageVars

\* A click on anything else, inside or outside #mainNav.
ClickPage ==
    /\ \E inNav \in BOOLEAN :
         /\ inNav => "mainNav" \in present
         /\ Click(PageTarget(inNav))
    /\ UNCHANGED pageVars

ClickGalleryItem ==
    /\ "galleryItem" \in present
    /\ \E i \in DOMAIN images : Click(GalleryTarget(i))
    /\ UNCHANGED pageVars

ClickLightbox ==
    /\ "lightbox" \in present
    /\ \E el \in LightboxEls : Click(LightboxTarget(el))
    /\ UNCHANGED pageVars

KeyDown ==
    /\ \E key \in Keys, focus \in {-1} \cup DOMAIN images :
         /\ focus # -1 => "galleryItem" \in present
         /\ Commit(keydownListeners(Dom, key, focus),
                   "keydown", NoTarget, key, focus)
    /\ UNCHANGED pageVars

\* A click on an enabled navigation button of the filmstrip (a disabled
\* button receives no click): its own listener, then those of the document.
ClickGalleryNav ==
    /\ \E b \in NavButtons, hasFrame \in BOOLEAN,
          itemWidth \in ItemWidths, parsedGap \in Gaps :
         /\ b.el \in present
         /\ ~(IF b.el = "prevBtn" THEN prevDisabled ELSE nextDisabled)
         /\ LET t == Target(b.el, "", FALSE, FALSE, FALSE, -1)
                l1 == IF Installed(Dom, "initGalleryNav")
                      THEN scrollGallery(Dom, b.direction, hasFrame,
                                         itemWidth, parsedGap)
                      ELSE Dom
            IN  Commit(clickListeners(l1, t), "click", t, "", b.direction)
    /\ UNCHANGED pageVars

\* A key pressed while no gallery item has the focus.
KeyDownPage ==
    /\ \E key \in Keys :
         Commit(keydownListeners(Dom, key, -1), "keydown", NoTarget, key, -1)
    /\ UNCHANGED pageVars

TouchStart ==
    /\ Installed(Dom, "initLightbox")
    /\ \E x \in ScreenXs :
         Commit(touchstart(Dom, x), "touchstart", NoTarget, "", x)
    /\ UNCHANGED pageVars

TouchEnd ==
    /\ Installed(Dom, "initLightbox")
    /\ \E x \in ScreenXs :
         Commit(touchend(Dom, x), "touchend", NoTarget, "", x)
    /\ UNCHANGED pageVars

Scroll ==
    /\ \E y \in ScrollYs :
         Commit(scrollListeners([Dom EXCEPT !.scrollY = y]),
                "scroll", NoTarget, "", y)
    /\ UNCHANGED pageVars

\* An animation frame: the browser runs the callbacks requested since the last.
Frame ==
    /\ rafQueue # <<>>
    /\ Commit(runCallbacks([Dom EXCEPT !.rafQueue = <<>>], rafQueue),
              "frame", NoTarget, "", -1)
    /\ UNCHANGED pageVars

\* A resize of the window to width w that leaves the filmstrip with a
\* scrollable extent of m; the browser keeps scrollLeft within it.
ResizeTo(w, m) ==
    Commit(resizeListeners([Dom EXCEPT !.innerWidth = w,
                                       !.stripMaxScroll = m,
                                       !.stripScrollLeft = Min(@, m)]),
           "resize", NoTarget, "", w)

\* A resize that does not change the layout of the filmstrip.
Resize ==
    /\ \E w \in InnerWidths : ResizeTo(w, stripMaxScroll)
    /\ UNCHANGED pageVars

\* A resize that changes the layout of the filmstrip.
ResizeStrip ==
    /\ "filmstrip" \in present
    /\ \E w \in InnerWidths, m \in MaxScrolls : ResizeTo(w, m)
    /\ UNCHANGED pageVars

\* The filmstrip is scrolled (by the user, or by the scrollBy of a button).
StripScroll ==
    /\ "filmstrip" \in present
    /\ \E x \in 0..stripMaxScroll :
         Commit(stripScrollListeners([Dom EXCEPT !.stripScrollLeft = x]),
                "stripscroll", NoTarget, "", x)
    /\ UNCHANGED pageVars

\* The timer of initGalleryNav fires.
Timeout ==
    /\ timerPending
    /\ Commit(timeoutCallbacks(Dom), "timeout", NoTarget, "", -1)
    /\ UNCHANGED pageVars

\* The IntersectionObserver delivers an entry for reveal element el.
Intersect ==
    /\ Installed(Dom, "initScrollReveal")
    /\ observerSupported
    /\ \E el \in RevealEls, isIntersecting \in BOOLEAN, top \in RectTops :
         Commit(revealEntry(Dom, el, isIntersecting, top), "intersect",
                Target("reveal", "", FALSE, FALSE, FALSE, el),
                BoolString(isIntersecting), top)
    /\ UNCHANGED pageVars

Next ==
    \/ Load
    \/ ClickMenuToggle
    \/ ClickLink
    \/ ClickPage
    \/ ClickGalleryItem
    \/ ClickLightbox
    \/ ClickGalleryNav
    \/ KeyDown
    \/ KeyDownPage
    \/ TouchStart
    \/ TouchEnd
    \/ Scroll
    \/ Frame
    \/ Resize
    \/ ResizeStrip
    \/ StripScroll
    \/ Timeout
    \/ Intersect

Spec == Init /\ [][Next]_vars

(***************************************************************************)
(* Specifications of one concern each: the events of that concern, from    *)
(* an initial page on which the inputs of the other concerns are fixed.    *)
(***************************************************************************)
\* The lightbox on its own: the mobile menus are never touched.
InitLightbox ==
    InitFrom(ScriptSets, {0}, {Breakpoint}, {80}, {600}, 1..MaxImages, {TRUE})

NextLightbox ==
    \/ ClickGalleryItem
    \/ ClickLightbox
    \/ KeyDown
    \/ TouchStart
    \/ TouchEnd

SpecLightbox == InitLightbox /\ [][NextLightbox]_vars

\* The scroll-driven controllers: header (both variants) and reveal.
InitScroll ==
    InitFrom(ScriptSets, ScrollYs, {Breakpoint}, {80}, {600}, {1}, BOOLEAN)

NextScroll ==
    \/ Scroll
    \/ Frame
    \/ Intersect

SpecScroll == InitScroll /\ [][NextScroll]_vars

\* The mobile menus (both variants) and the anchor links.
InitNav ==
    InitFrom(ScriptSets, ScrollYs, InnerWidths, HeaderHeights, SectionTops,
             {1}, {TRUE})

NextNav ==
    \/ ClickMenuToggle
    \/ ClickLink
    \/ ClickPage
    \/ KeyDown
    \/ Resize

SpecNav == InitNav /\ [][NextNav]_vars

\* The two overlays that lock the page scroll: mobile menu and lightbox.
InitOverlay ==
    InitFrom(ScriptSets, {0}, {Breakpoint}, {80}, {600}, 1..MaxImages, {TRUE})

NextOverlay ==
    \/ ClickMenuToggle
    \/ ClickLink
    \/ ClickGalleryItem
    \/ ClickLightbox
    \/ KeyDown

SpecOverlay == InitOverlay /\ [][NextOverlay]_vars

\* The mobile menus on their own: the gallery is never touched, so the
\* lightbox stays closed.
InitMenu ==
    InitFrom(ScriptSets, {0}, {Breakpoint}, {80}, {600}, {1}, {TRUE})

NextMenu ==
    \/ ClickMenuToggle
    \/ ClickLink
    \/ KeyDownPage

SpecMenu == InitMenu /\ [][NextMenu]_vars

\* The filmstrip navigation on its own.
InitStrip ==
    InitFrom(ScriptSets, {0}, {Breakpoint}, {80}, {600}, {1}, {TRUE})

NextStrip ==
    \/ ClickGalleryNav
    \/ StripScroll
    \/ ResizeStrip
    \/ Timeout

SpecStrip == InitStrip /\ [][NextStrip]_vars

\* The page load and the events that follow it, from a document in which
\* up to MaxMissing of the expected elements are absent.
InitLoad ==
    InitDocument(ScriptSets, Documents, {0}, {Breakpoint}, {80}, {600}, {1},
                 {TRUE})

NextLoad ==
    \/ Load
    \/ ClickMenuToggle
    \/ ClickPage
    \/ Scroll
    \/ Frame
    \/ Resize

SpecLoad == InitLoad /\ [][NextLoad]_vars

(***************************************************************************)
(* Properties.                                                             *)
(***************************************************************************)
\* What "next" and "previous" are to yield on a gallery of n images.
NextIndex(i, n) == IF i = n - 1 THEN 0 ELSE i + 1
PrevIndex(i, n) == IF i = 0 THEN n - 1 ELSE i - 1

IsKey(e, key) == e.type = "keydown" /\ e.key = key
IsClickOn(e, el) == e.type = "click" /\ e.target.el = el

\* C1: after any sequence of lightbox operations on a gallery of n >= 1
\* images the current index is in [0, n-1].
C1_IndexInRange ==
    Cinematic => (ImagesLength >= 1 /\ currentIndex \in 0..(ImagesLength - 1))

\* "Previous" pressed at index 0 of a gallery of at least two images: the
\* index wrapped to the last image.
C1_Witness ==
    /\ Cinematic
    /\ lightboxActive
    /\ IsKey(event, "ArrowLeft")
    /\ ImagesLength >= 2
    /\ currentIndex = ImagesLength - 1

LightboxState(d) ==
    <<d.currentIndex, d.lightboxImg, d.lightboxActive, d.bodyOverflow>>

LightboxNow == <<currentIndex, lightboxImg, lightboxActive, bodyOverflow>>

AfterClickNext == LightboxState(clickListeners(Dom, LightboxTarget("lightboxNext")))
AfterClickPrev == LightboxState(clickListeners(Dom, LightboxTarget("lightboxPrev")))

\* The horizontal delta of the gesture a touchend event completes.
SwipeDelta == touchEndX' - touchStartX

MenusClosed == ~navOpen /\ ~mobileMenuActive

EntryEl(e) == e.target.index
EntryIntersecting(e) == e.key = "true"
EntryTop(e) == e.num

\* C3 as stated: an intersecting element becomes visible; a non-intersecting
\* one whose top edge is above the viewport top (rect.top < 0) becomes
\* not-visible; a non-intersecting one whose top edge is below the viewport
\* top (rect.top > 0) keeps its flag.
C3_Original ==
    [][(Cinematic /\ event'.type = "intersect") =>
        LET el == EntryEl(event')
        IN  /\ EntryIntersecting(event') => visible'[el]
            /\ (~EntryIntersecting(event') /\ EntryTop(event') < 0)
               => ~visible'[el]
            /\ (~EntryIntersecting(event') /\ EntryTop(event') > 0)
               => visible'[el] = visible[el]]_vars

\* C3, amended: an intersecting element becomes visible; a non-intersecting
\* one whose top edge is below the viewport top (rect.top > 0) becomes
\* not-visible; a non-intersecting one whose top edge is at or above the
\* viewport top (rect.top <= 0) keeps its flag; no other element's flag
\* changes.
C3_HideOnlyBelowTop ==
    [][(Cinematic /\ event'.type = "intersect") =>
        LET el == EntryEl(event')
        IN  /\ EntryIntersecting(event') => visible'[el]
            /\ (~EntryIntersecting(event') /\ EntryTop(event') > 0)
               => ~visible'[el]
            /\ (~EntryIntersecting(event') /\ EntryTop(event') <= 0)
               => visible'[el] = visible[el]
            /\ \A other \in RevealEls \ {el} :
                 visible'[other] = visible[other]]_vars

\* An element that left the viewport through its top is still shown.
C3_Witness ==
    /\ Cinematic
    /\ observerSupported
    /\ event.type = "intersect"
    /\ ~EntryIntersecting(event)
    /\ EntryTop(event) < 0
    /\ visible[EntryEl(event)]

\* C5: each header variant on its own.  Uncoalesced variant: the scrolled
\* flag is true iff the scroll offset is above 100, in every state.
\* Coalesced variant: the flag is true iff the offset is above 50, in every
\* state in which no frame callback is pending.  At the threshold itself
\* the flag is false.
C5_HeaderThreshold ==
    /\ scripts = {"simple"}
       => (headerScrolled <=> scrollY > SimpleThreshold)
    /\ (scripts = {"cinematic"} /\ rafQueue = <<>>)
       => (headerScrolled <=> scrollY > CinematicThreshold)

\* The coalesced variant recomputed at an offset of exactly 50, after a
\* scroll: the flag is off.
C5_Witness ==
    /\ scripts = {"cinematic"}
    /\ event.type = "frame"
    /\ rafQueue = <<>>
    /\ scrollY = CinematicThreshold
    /\ lastScrollY = CinematicThreshold
    /\ ~headerScrolled

\* The click was on a link, or on an element of the page that is no link.
IsLinkClick(e) == IsClickOn(e, "link")
IsOutsideClick(e) ==
    e.type = "click" /\ ~e.target.inNav /\ ~e.target.inToggle
IsResizeAbove(e) == e.type = "resize" /\ e.num > Breakpoint

\* The menu of the variant that runs on its own.
MenuOpen == IF scripts = {"simple"} THEN navOpen ELSE mobileMenuActive
\* A link inside that menu.
InMenu(t) == IF scripts = {"simple"} THEN t.inNav ELSE t.menuLink

\* C6 as stated, for a page that runs one variant: a click on the toggle
\* inverts the menu state, and from an open menu a click on an in-menu
\* link, Escape, a click outside menu and toggle, and a resize above the
\* breakpoint each leave the menu closed.
C6_Original ==
    [][(scripts \in {{"simple"}, {"cinematic"}}) =>
        /\ IsClickOn(event', "menuToggle") => MenuOpen' = ~MenuOpen
        /\ (/\ MenuOpen
            /\ \/ (IsLinkClick(event') /\ InMenu(event'.target))
               \/ IsKey(event', "Escape")
               \/ (IsOutsideClick(event') /\ ~InMenu(event'.target))
               \/ IsResizeAbove(event'))
           => ~MenuOpen']_vars

\* C6, amended.  Simpler variant: a click on the toggle inverts the menu
\* state; from an open menu a click outside menu and toggle, a resize to a
\* width above 768 and a click on a same-page anchor link whose target
\* exists each leave it closed.  Richer variant: a click on the toggle
\* inverts the menu state; from an open menu a click on a menu link and
\* Escape each leave it closed.
C6_MenuCloses ==
    [][/\ Simple =>
           /\ IsClickOn(event', "menuToggle") => navOpen' = ~navOpen
           /\ (/\ navOpen
               /\ \/ IsOutsideClick(event')
                  \/ IsResizeAbove(event')
                  \/ (IsLinkClick(event') /\ TargetExists(event'.target.href)))
              => ~navOpen'
       /\ Cinematic =>
           /\ IsClickOn(event', "menuToggle")
              => mobileMenuActive' = ~mobileMenuActive
           /\ (/\ mobileMenuActive
               /\ \/ (IsLinkClick(event') /\ event'.target.menuLink)
                  \/ IsKey(event', "Escape"))
              => ~mobileMenuActive']_vars

\* A click outside closed the simpler variant's menu: the toggle still
\* carries the label the opening click gave it.
C6_Witness ==
    /\ Simple
    /\ IsOutsideClick(event)
    /\ ~navOpen
    /\ ariaLabel = LabelClose

\* C7: in the simpler variant, aria-expanded is "true" iff the menu is open
\* and aria-label is the close label iff the menu is open.
C7_AriaInSync ==
    Simple =>
        /\ ariaExpanded = "true" <=> navOpen
        /\ ariaLabel = LabelClose <=> navOpen

\* The scroll requests an anchor click made.
ScrollRequests(e) == {e.scrollTo[k] : k \in DOMAIN e.scrollTo}

\* The click was on a same-page anchor link whose target exists.
IsAnchorClick(e) ==
    /\ IsLinkClick(e)
    /\ IsHashHref(e.target.href)
    /\ e.target.href # "#"
    /\ TargetExists(e.target.href)

IsDeadAnchor(t) ==
    /\ t.el = "link"
    /\ IsHashHref(t.href)
    /\ (t.href = "#" \/ ~TargetExists(t.href))

DeadAnchors == {LinkTarget(l) : l \in {k \in Links : IsDeadAnchor(LinkTarget(k))}}

C12_InitializedOnce ==
    (loaded /\ Cinematic) =>
        \A c \in Controllers : Required(c) \subseteq present => installed[c] = 1

\* C13: for every subset of the expected elements that is missing,
\* initialization and every later event handler complete without a thrown
\* fault, and exactly the controllers that require a missing element are
\* disabled.
C13_NoFaultWhenMissing ==
    /\ event.faults = <<>>
    /\ (loaded /\ Cinematic) =>
           \A c \in Controllers :
               Installed(Dom, c) <=> Required(c) \subseteq present

\* The events after which the filmstrip buttons were evaluated.
IsStripEvaluation(e) == e.type \in {"timeout", "stripscroll", "resize"}

Pending(q, cb) == Cardinality({i \in DOMAIN q : q[i] = cb})

\* C15: for the header and the parallax controller alike, at most one
\* recomputation callback is pending at any time; a scroll event that
\* arrives while the controller's guard flag is set schedules nothing; the
\* flag is cleared only when the scheduled callback runs.
C15_OnePendingCallback ==
    /\ [](/\ Pending(rafQueue, "updateHeader") = (IF ticking THEN 1 ELSE 0)
          /\ Pending(rafQueue, "updateParallax") =
                 (IF parallaxTicking THEN 1 ELSE 0))
    /\ [][/\ (event'.type = "scroll" /\ ticking) =>
                 Pending(rafQueue', "updateHeader") = 1
          /\ (event'.type = "scroll" /\ parallaxTicking) =>
                 Pending(rafQueue', "updateParallax") = 1
          /\ (ticking /\ ~ticking') => event'.type = "frame"
          /\ (parallaxTicking /\ ~parallaxTicking') => event'.type = "frame"
      ]_vars

\* After a frame ran both callbacks the page was scrolled again, and both
\* controllers have one callback pending.
C15_Witness ==
    /\ event.type = "scroll"
    /\ ticking
    /\ parallaxTicking
    /\ rafQueue = <<"updateParallax", "updateHeader">>
    /\ heroTranslate # -1
    /\ scrollY # lastScrollY

\* The controllers coalesced per animation frame (header and parallax):
\* scroll events and frames.  The browser delivers a requested frame: Frame
\* is enabled from the request until it runs, and weakly fair.
InitFrames ==
    InitFrom(ScriptSets, ScrollYs, {Breakpoint}, {80}, {600}, {1}, {TRUE})

NextFrames ==
    \/ Scroll
    \/ Frame

SpecFrames == InitFrames /\ [][NextFrames]_vars /\ WF_vars(Frame)

\* C17: provided requested animation-frame callbacks eventually run, after
\* any finite burst of scroll events the coalesced header reaches a state
\* with no pending callback in which the scrolled flag equals
\* (scrollY > 50).
C17_HeaderSettles ==
    ticking ~> (/\ ~ticking
                /\ Pending(rafQueue, "updateHeader") = 0
                /\ headerScrolled <=> scrollY > 50)

\* The frame after a scroll to 51 on a page running both scripts: the
\* header is flagged although the simple script's listener had cleared the
\* flag at the scroll event.
C17_Witness ==
    /\ event.type = "frame"
    /\ Simple
    /\ Installed(Dom, "initHeader")
    /\ scrollY = 51
    /\ lastScrollY = 51
    /\ ~ticking
    /\ rafQueue = <<>>
    /\ headerScrolled

\* C16: for the richer mobile menu on its own (the lightbox never opened),
\* after any sequence of toggle clicks, in-menu link clicks and Escape key
\* presses: the menu panel is active iff the toggle control is active iff
\* the body overflow is "hidden".
C16_MenuPanelToggleLock ==
    Installed(Dom, "initMobileMenu") =>
        /\ mobileMenuActive <=> menuToggleActive
        /\ mobileMenuActive <=> bodyOverflow = "hidden"

\* On a page running both scripts the toggle opened both menus and the
\* richer one was closed again: Escape finds it closed, toggle inactive,
\* scroll unlocked, while the simpler menu is still open.
C16_Witness ==
    /\ Installed(Dom, "initMobileMenu")
    /\ IsKey(event, "Escape")
    /\ ~mobileMenuActive
    /\ ~menuToggleActive
    /\ bodyOverflow = ""
    /\ navOpen

\* C18: whenever the lightbox is open, the rendered image (source and
\* alternative text) is the descriptor of the image at the current index.
C18_RenderedIsCurrent ==
    lightboxActive =>
        /\ currentIndex \in DOMAIN images
        /\ lightboxImg.src = images[currentIndex].src
        /\ lightboxImg.alt = images[currentIndex].alt

\* The open lightbox was moved by a swipe to the last of several images,
\* which it renders.
C18_Witness ==
    /\ lightboxActive
    /\ event.type = "touchend"
    /\ ImagesLength >= 3
    /\ currentIndex = ImagesLength - 1
    /\ Abs(touchEndX - touchStartX) > 50
    /\ lightboxImg = ImageOf(ImagesLength - 1)

\* Escape pressed, or an arrow key, while the lightbox is closed.
IsClosedLightboxKey ==
    /\ ~lightboxActive
    /\ event'.type = "keydown"
    /\ event'.key \in {"Escape", "ArrowLeft", "ArrowRight"}

\* C19: while the lightbox is closed, Escape and the arrow keys leave the
\* lightbox state, the index and the rendered image unchanged, and, when
\* the mobile menu is closed as well, the scroll lock too.
C19_KeysIgnoredWhenClosed ==
    [][IsClosedLightboxKey =>
        /\ lightboxActive' = lightboxActive
        /\ currentIndex' = currentIndex
        /\ lightboxImg' = lightboxImg
        /\ ~mobileMenuActive => bodyOverflow' = bodyOverflow]_vars

\* ArrowRight was pressed on a closed lightbox that had been opened before
\* and shows image 1 of several: it still does.
C19_Witness ==
    /\ IsKey(event, "ArrowRight")
    /\ ~lightboxActive
    /\ ~mobileMenuActive
    /\ ImagesLength >= 3
    /\ currentIndex = 1
    /\ lightboxImg = ImageOf(1)
    /\ bodyOverflow = ""

\* showNextImage, k times over.
RECURSIVE NextTimes(_, _)
NextTimes(d, k) == IF k = 0 THEN d ELSE NextTimes(showNextImage(d), k - 1)

\* showPrevImage, k times over.
RECURSIVE PrevTimes(_, _)
PrevTimes(d, k) == IF k = 0 THEN d ELSE PrevTimes(showPrevImage(d), k - 1)

\* C20: for every gallery size n >= 1 and index i in [0, n-1], next
\* followed by previous and previous followed by next both return to i, and
\* n consecutive next (or n consecutive previous) operations return to i
\* (and no smaller positive number of them does).
C20_RoundTrips ==
    /\ showPrevImage(showNextImage(Dom)).currentIndex = currentIndex
    /\ showNextImage(showPrevImage(Dom)).currentIndex = currentIndex
    /\ NextTimes(Dom, ImagesLength).currentIndex = currentIndex
    /\ PrevTimes(Dom, ImagesLength).currentIndex = currentIndex
    /\ \A k \in 1..(ImagesLength - 1) :
           /\ NextTimes(Dom, k).currentIndex # currentIndex
           /\ PrevTimes(Dom, k).currentIndex # currentIndex

\* The lightbox of a gallery of four or more images stands on the last
\* image after a click on "previous" wrapped around from the first.
C20_Witness ==
    /\ lightboxActive
    /\ IsClickOn(event, "lightboxPrev")
    /\ ImagesLength >= 4
    /\ currentIndex = ImagesLength - 1
    /\ showNextImage(Dom).currentIndex = 0
    /\ NextTimes(Dom, 2).currentIndex = 1

====
